---- MODULE Spec2Model ----
(***************************************************************************)
(* Semantic analysis of RealHotGirlScript (gangscript).                    *)
(*                                                                         *)
(* The model follows semantics/context.js (the Context objects: parent     *)
(* link, current function, loop flag, the two declaration maps) and        *)
(* semantics/analyzer.js (one analyze rule per syntax tree node).          *)
(*                                                                         *)
(* A program is a sequence of statements.  It is written here in the order *)
(* in which the analyzer walks it: a statement that owns a body is         *)
(* followed by the statements of that body and by an "end" statement.      *)
(* One step of the model is the analysis of one statement; the program     *)
(* under analysis is recorded in prog while the first compile walks it,    *)
(* and a second compile of the same tree replays it against the same       *)
(* Context.INITIAL object.                                                 *)
(*                                                                         *)
(* semantics/check.js, semantics/builtins.js and the ast/ node classes are *)
(* not part of the sources at hand: the checks they hold are modelled from *)
(* the rules of the specification (section 4.3) and are marked so.  The    *)
(* same holds for backend/javascript-generator, of which the sources hold  *)
(* the test fixtures only: its naming of declarations is modelled from     *)
(* section 4.4.                                                            *)
(***************************************************************************)
EXTENDS Integers, Sequences, FiniteSets, TLC

VARIABLES
    ctxs,      \* the Context objects created so far; ctxs[1] is Context.INITIAL
    stack,     \* the analyze calls in progress that own a body, innermost last
    prog,      \* the statements of the program, in walk order
    pc,        \* index in prog of the statement analysed next
    compile,   \* 1: first compile of prog, 2: second compile of the same prog
    status,    \* "running", "accepted" (analysis returned), "failed" (it threw)
    typed,     \* the expression nodes that carry a type: <<pc, field, index>>
    thrown,    \* the message of the error that was thrown, "" when none was
    exprType,  \* this.type of the statement analysed last, when it is an expression
    refs,      \* the declarations the identifier nodes were resolved to
    gen        \* the generator: its position, its table of suffixes, its output

vars == <<ctxs, stack, prog, pc, compile, status, typed, thrown, exprType,
          refs, gen>>

\* Number of statements (block ends included) of a program.
MaxLen == 4

-----------------------------------------------------------------------------
(* Types: the built-in type objects the analyzer requires.                 *)

IntType == "IntType"
LongType == "LongType"
StringType == "StringType"
BooleanType == "BooleanType"
NoneType == "NoneType"

\* The return type marker of a function that returns nothing.
leftOnRead == "leftOnRead"

\* The value of a field that was never assigned.
undefined == "undefined"

-----------------------------------------------------------------------------
(* Contexts.                                                               *)

Names == {"x", "f"}
ClassNames == {"K"}

\* An entity held by a declaration map.  at and run name the declaring
\* statement (its index in prog and the compile that analysed it).
Entity(kind, constant, type, run, at) ==
    [kind |-> kind, constant |-> constant, type |-> type, run |-> run, at |-> at]

NoEntity == Entity("none", FALSE, undefined, 0, 0)

\* currentFunction = null.
null == [at |-> 0, run |-> 0, type |-> undefined]

EmptyMap == [n \in {} |-> NoEntity]

MapSet(m, id, entity) ==
    [k \in (DOMAIN m) \cup {id} |-> IF k = id THEN entity ELSE m[k]]

\* properties: the names stored on the variableDeclarations object as plain
\* properties (object[name] = value); they are not entries of the Map, and
\* has() and get() do not see them.
Context(parent, currentFunction, inLoop) ==
    [parent |-> parent,
     currentFunction |-> currentFunction,
     inLoop |-> inLoop,
     variableDeclarations |-> EmptyMap,
     properties |-> {},
     classDeclarations |-> EmptyMap]

\* The ids of the standardFunctions list of semantics/builtins.js; one
\* function stands for the list.
standardFunctions == {"standardFunction"}

\* The names of the built-in types ([IntType, ...].forEach(type => ...)).
builtinTypes == {IntType, LongType, StringType, BooleanType, NoneType}

\* Context.INITIAL: the five built-in types are set in the class map.  The
\* standard functions are stored as plain properties of the Map object
\* (variableDeclarations[f.id] = f), so the variable map itself holds no entry.
INITIAL ==
    [Context(0, null, FALSE) EXCEPT
        !.properties = standardFunctions,
        !.classDeclarations =
            [n \in builtinTypes |-> Entity("Type", FALSE, n, 0, 0)]]

\* A function body context that takes over the loop flag of its parent.
createChildContextForFunctionBody_keepsLoop(h, c, currentFunction) ==
    Append(h, Context(c, currentFunction, h[c].inLoop))

\* The child constructors return the heap with the new context appended; the
\* new context is the last one.
createChildContextForFunctionBody(h, c, currentFunction) ==
    Append(h, Context(c, currentFunction, FALSE))

\* A loop context that does not retain the current function.
createChildContextForLoop_dropsFunction(h, c) ==
    Append(h, Context(c, null, TRUE))

createChildContextForLoop(h, c) ==
    Append(h, Context(c, h[c].currentFunction, TRUE))

createChildContextForBlock(h, c) ==
    Append(h, Context(c, h[c].currentFunction, h[c].inLoop))

\* addVar without its test of the own map: the entry is overwritten.
addVar_overwrites(h, c, id, entity) ==
    [err |-> FALSE,
     h |-> [h EXCEPT ![c].variableDeclarations = MapSet(@, id, entity)]]

\* addVar / addClass: err when the id is a key of this context's own map.
addVar(h, c, id, entity) ==
    IF id \in DOMAIN h[c].variableDeclarations
    THEN [err |-> TRUE, h |-> h]
    ELSE [err |-> FALSE,
          h |-> [h EXCEPT ![c].variableDeclarations = MapSet(@, id, entity)]]

addClass(h, c, id, entity) ==
    IF id \in DOMAIN h[c].classDeclarations
    THEN [err |-> TRUE, h |-> h]
    ELSE [err |-> FALSE,
          h |-> [h EXCEPT ![c].classDeclarations = MapSet(@, id, entity)]]

\* lookupVar without the walk along the parent links.
lookupVar_ownOnly(h, c, id) ==
    IF c # 0 /\ id \in DOMAIN h[c].variableDeclarations
    THEN [found |-> TRUE, entity |-> h[c].variableDeclarations[id], ctx |-> c]
    ELSE [found |-> FALSE, entity |-> NoEntity, ctx |-> 0]

\* lookupVar / lookupClass: from context c outward along the parent links.
\* found = FALSE stands for the thrown "has not been declared" error.
RECURSIVE lookupVar(_, _, _)
lookupVar(h, c, id) ==
    IF c = 0
    THEN [found |-> FALSE, entity |-> NoEntity, ctx |-> 0]
    ELSE IF id \in DOMAIN h[c].variableDeclarations
         THEN [found |-> TRUE, entity |-> h[c].variableDeclarations[id], ctx |-> c]
         ELSE lookupVar(h, h[c].parent, id)

RECURSIVE lookupClass(_, _, _)
lookupClass(h, c, id) ==
    IF c = 0
    THEN [found |-> FALSE, entity |-> NoEntity, ctx |-> 0]
    ELSE IF id \in DOMAIN h[c].classDeclarations
         THEN [found |-> TRUE, entity |-> h[c].classDeclarations[id], ctx |-> c]
         ELSE lookupClass(h, h[c].parent, id)

-----------------------------------------------------------------------------
(* semantics/check.js: each check throws when its condition is FALSE.      *)

check_isBoolean(type) == type = BooleanType
check_isIntegerOrLong(type) == type \in {IntType, LongType}
check_isAssignableTo(type, target) == type = target
check_isNotConstant(entity) == ~entity.constant
check_sameNumberOfInitializersAsVariables(expressions, ids) ==
    Len(expressions) = Len(ids)
check_inLoop(context) == context.inLoop
check_inFunction(context) == context.currentFunction # null
check_isInteger(type) == type = IntType
check_isString(type) == type = StringType
check_isIntegerOrString(type) == type \in {IntType, StringType}
check_sameType(left, right) == left = right
check_isFunctionOrClass(entity) == entity.kind \in {"Function", "Class"}
check_legalArguments(args, params) ==
    /\ Len(args) = Len(params)
    /\ \A i \in 1..Len(args) : check_isAssignableTo(args[i], params[i].type)
check_asyncAwait(async, wait) == async = wait

-----------------------------------------------------------------------------
(* Expressions.                                                            *)

Literal(node) == [node |-> node, id |-> ""]
StringLiteral == Literal("StringLiteral")
NoneLiteral == Literal("NoneLiteral")
BooleanLiteral == Literal("BooleanLiteral")
NumericLiteral == Literal("NumericLiteral")
IdentifierExpression(id) == [node |-> "IdentifierExpression", id |-> id]

\* IdentifierExpression.analyze: this.ref = lookupVar(id); this.type = ref.type.
IdentifierExpression_analyze(h, c, e) ==
    LET ref == lookupVar(h, c, e.id)
    IN  IF ref.found
        THEN [err |-> FALSE, type |-> ref.entity.type]
        ELSE [err |-> TRUE, type |-> undefined]

\* The tests of this.op against the regular expressions of
\* BinaryExpression.analyze: a match anywhere in the operator.
HasChar(op, chars) == \E i \in 1..Len(op) : op[i] \in chars
HasPair(op, ch) == \E i \in 1..(Len(op) - 1) : op[i] = ch /\ op[i + 1] = ch
IsArithmetic(op) == HasChar(op, {"^", "-", "*", "%", "/"})
IsLogical(op) == HasPair(op, "&") \/ HasPair(op, "|")
IsRelational(op) == HasChar(op, {"<", ">"})
IsPlus(op) == HasChar(op, {"+"})

Typed(ok, type) ==
    IF ok THEN [err |-> FALSE, type |-> type] ELSE [err |-> TRUE, type |-> undefined]

\* An arithmetic branch that takes Long operands as well.
BinaryExpression_arithmetic_long(left, right) ==
    Typed(check_isIntegerOrLong(left) /\ check_isIntegerOrLong(right), IntType)

\* The branch of the operators ^ - * % /.
BinaryExpression_arithmetic(left, right) ==
    Typed(check_isInteger(left) /\ check_isInteger(right), IntType)

\* The branch of && and ||.
BinaryExpression_logical(left, right) ==
    Typed(check_isBoolean(left) /\ check_isBoolean(right), BooleanType)

\* The branch of < <= > >=.
BinaryExpression_relational(left, right) ==
    Typed(/\ check_sameType(left, right)
          /\ check_isIntegerOrString(left)
          /\ check_isIntegerOrString(right),
          BooleanType)

\* A + branch that concatenates as soon as one operand is a String.
BinaryExpression_plus_anyString(left, right) ==
    IF check_isInteger(left) /\ check_isInteger(right)
    THEN Typed(TRUE, IntType)
    ELSE Typed(check_isString(left) \/ check_isString(right), StringType)

\* The branch of +: the Integer checks are tried first; when one throws,
\* the String checks are tried; when one of these throws, the rule throws.
BinaryExpression_plus(left, right) ==
    IF check_isInteger(left) /\ check_isInteger(right)
    THEN Typed(TRUE, IntType)
    ELSE Typed(check_isString(left) /\ check_isString(right), StringType)

\* The last branch (== and !=).
BinaryExpression_equality(left, right) ==
    Typed(check_sameType(left, right), BooleanType)

\* The branches of BinaryExpression.analyze on the types of the analysed
\* operands, in the order of the tests of this.op.
BinaryExpression_check(op, left, right) ==
    IF IsArithmetic(op) THEN BinaryExpression_arithmetic(left, right)
    ELSE IF IsLogical(op) THEN BinaryExpression_logical(left, right)
    ELSE IF IsRelational(op) THEN BinaryExpression_relational(left, right)
    ELSE IF IsPlus(op) THEN BinaryExpression_plus(left, right)
    ELSE BinaryExpression_equality(left, right)

\* new ArrayType(memberType): the descriptor of the type.  Two descriptors
\* are equal when the variants and the component types are.
ArrayType(memberType) == "ArrayType<" \o memberType \o ">"

\* The analyze rule of an expression node: err when it throws, else the type
\* it leaves in this.type.  A binary expression analyses its operands first.
RECURSIVE analyze(_, _, _)
analyze(h, c, e) ==
    CASE e.node = "StringLiteral" -> [err |-> FALSE, type |-> StringType]
      [] e.node = "NoneLiteral" -> [err |-> FALSE, type |-> NoneType]
      [] e.node = "BooleanLiteral" -> [err |-> FALSE, type |-> BooleanType]
      [] e.node = "NumericLiteral" -> [err |-> FALSE, type |-> IntType]
      [] e.node = "IdentifierExpression" -> IdentifierExpression_analyze(h, c, e)
      [] e.node = "BinaryExpression" ->
            LET left == analyze(h, c, e.left)
                right == analyze(h, c, e.right)
            IN  IF left.err \/ right.err
                THEN [err |-> TRUE, type |-> undefined]
                ELSE BinaryExpression_check(e.operator, left.type, right.type)
      [] e.node = "ArrayExpression" ->
            IF e.expression = <<>>
            THEN [err |-> FALSE, type |-> ArrayType(NoneType)]
            ELSE LET m(i) == analyze(h, c, e.expression[i])
                 IN  Typed(\A i \in 1..Len(e.expression) :
                                /\ ~m(i).err
                                /\ check_isAssignableTo(m(i).type, m(1).type),
                           ArrayType(m(1).type))

\* IdentifierDeclaration.analyze (a target of an assignment):
\* this.type = context.lookupVar(this.id).type.
IdentifierDeclaration_analyze(h, c, id) == lookupVar(h, c, id)

Min(S) == CHOOSE m \in S : \A n \in S : m <= n

\* exprs.forEach(e => e.analyze(context)): n expressions are typed before the
\* first one that throws.
analyzeAll(h, c, exprs) ==
    LET bad == {i \in 1..Len(exprs) : analyze(h, c, exprs[i]).err}
    IN  [err |-> bad # {},
         n |-> IF bad = {} THEN Len(exprs) ELSE Min(bad) - 1]

\* The expression nodes 1..n of a field of the statement at index at.
Slots(at, field, n) == {<<at, field, i>> : i \in 1..n}

-----------------------------------------------------------------------------
(* Statements: the syntax tree nodes the parser hands over.  No node has a *)
(* type or binding filled in.                                              *)

VarStmts ==
    {[op |-> "VariableDeclaration", constant |-> FALSE, type |-> d[1],
      ids |-> <<n>>, expressions |-> <<d[2]>>] :
        n \in Names,
        d \in {<<IntType, NumericLiteral>>, <<StringType, StringLiteral>>,
               <<IntType, IdentifierExpression("x")>>}}

FunctionStmts ==
    {[op |-> "FunctionDeclaration", id |-> "f", type |-> t, params |-> ps] :
        t \in {leftOnRead, IntType},
        ps \in {<<>>, <<[id |-> "x", type |-> IntType]>>}}

ClassStmts ==
    {[op |-> "ClassDeclaration", id |-> k, params |-> <<>>] : k \in ClassNames}

WhileStmts == {[op |-> "WhileStatement", expression |-> BooleanLiteral]}

ClassicForStmts ==
    {[op |-> "ClassicForLoop", type |-> IntType, initId |-> "x",
      initexpression |-> NumericLiteral, testExpression |-> BooleanLiteral,
      updateid |-> "x"]}

SpreadForStmts ==
    {[op |-> "SpreadForLoop", min |-> NumericLiteral, max |-> NumericLiteral]}

\* tests[i] guards the i-th consequent block; alternate: an else block follows.
IfStmts ==
    {[op |-> "IfStatement", tests |-> d[1], alternate |-> d[2]] :
        d \in {<<<<BooleanLiteral>>, FALSE>>, <<<<BooleanLiteral>>, TRUE>>,
               <<<<BooleanLiteral, BooleanLiteral>>, FALSE>>}}

\* cases[i] is the expression of the i-th case; alternate: a default case
\* follows.
SwitchStmts ==
    {[op |-> "SwitchStatement", expression |-> IdentifierExpression("x"),
      cases |-> d[1], alternate |-> d[2]] :
        d \in {<<<<NumericLiteral, NumericLiteral>>, TRUE>>,
               <<<<BooleanLiteral>>, TRUE>>,
               <<<<BooleanLiteral>>, FALSE>>,
               <<<<>>, TRUE>>}}

BreakStmts == {[op |-> "BreakStatement"]}
ContinueStmts == {[op |-> "ContinueStatement"]}

\* A ReturnStatement node has an expression; nothing assigns its type field.
ReturnStmts ==
    {[op |-> "ReturnStatement", expression |-> e, type |-> undefined] :
        e \in {NumericLiteral, NoneLiteral}}

PrintStmts ==
    {[op |-> "PrintStatement", expression |-> e] :
        e \in {StringLiteral, IdentifierExpression("x")}}

\* The end of the statement list of a body.
EndStmts == {[op |-> "end"]}

\* Declarations of one or two variables, constant or not.
DeclarationStmts ==
    {[op |-> "VariableDeclaration", constant |-> k, type |-> IntType,
      ids |-> i, expressions |-> e] :
        k \in BOOLEAN, i \in {<<"x">>, <<"x", "f">>},
        e \in {<<NumericLiteral>>, <<NumericLiteral, NumericLiteral>>}}

\* Assignments: one or two targets, one or two sources.
AssignmentStmts ==
    {[op |-> "AssignmentStatement", target |-> t, source |-> e] :
        t \in {<<"x">>, <<"x", "f">>},
        e \in {<<NumericLiteral>>, <<StringLiteral>>, <<IdentifierExpression("f")>>,
               <<NumericLiteral, NumericLiteral>>,
               <<NumericLiteral, IdentifierExpression("f")>>}}

\* Switch statements without a default case: the scrutinee is a literal, the
\* cases are one or two literals.
SwitchCaseStmts ==
    {[op |-> "SwitchStatement", expression |-> e, cases |-> c, alternate |-> FALSE] :
        e \in {BooleanLiteral, NumericLiteral},
        c \in {<<BooleanLiteral>>, <<NumericLiteral>>,
               <<BooleanLiteral, BooleanLiteral>>,
               <<BooleanLiteral, NumericLiteral>>}}

\* Class declarations with one constructor parameter, x.
ClassParamStmts ==
    {[op |-> "ClassDeclaration", id |-> k,
      params |-> <<[id |-> "x", type |-> IntType]>>] : k \in ClassNames}

\* Classic for loops on the index x: the test compares the index with a
\* literal, the update names the index or f.
ClassicForIndexStmts ==
    {[op |-> "ClassicForLoop", type |-> IntType, initId |-> "x",
      initexpression |-> e,
      testExpression |->
        [node |-> "BinaryExpression", id |-> "", operator |-> <<"<", "=">>,
         left |-> IdentifierExpression("x"), right |-> NumericLiteral],
      updateid |-> u] :
        e \in {NumericLiteral, StringLiteral}, u \in Names}

\* An array literal of the elements.
ArrayExpression(elements) ==
    [node |-> "ArrayExpression", id |-> "", expression |-> elements]

\* Expression statements: a tuple literal of no, one or two members, each a
\* number, an array of a number or an array of a Boolean.
TupleStmts ==
    LET members == {NumericLiteral, ArrayExpression(<<NumericLiteral>>),
                    ArrayExpression(<<BooleanLiteral>>)}
    IN  {[op |-> "TupleExpression", expressions |-> e] :
            e \in {<<>>} \cup {<<m>> : m \in members}
                    \cup {<<m, n>> : m \in members, n \in members}}

\* Functions of a parameter x, an array of Integer or an Integer, and a
\* parameter y, an Integer or a String.
ArrayFunctionStmts ==
    {[op |-> "FunctionDeclaration", id |-> "f", type |-> leftOnRead,
      params |-> <<[id |-> "x", type |-> t1], [id |-> "y", type |-> t2]>>] :
        t1 \in {ArrayType(IntType), IntType}, t2 \in {IntType, StringType}}

\* Expression statements: x subscripted by a number or by y.
SubscriptStmts ==
    {[op |-> "SubscriptedExpression", varexp |-> IdentifierExpression("x"),
      subscript |-> e] :
        e \in {NumericLiteral, IdentifierExpression("y")}}

\* Call statements: the callee is named by id, args holds the expressions of
\* the arguments.
CallStmts ==
    {[op |-> "CallStatement", id |-> n, args |-> a, wait |-> FALSE] :
        n \in Names \cup ClassNames, a \in {<<>>, <<NumericLiteral>>}}

\* The types of the parameters in the programs about binary expressions.
OperandTypes == {IntType, LongType, StringType, BooleanType, NoneType}

\* Functions of two parameters x and y, of every pair of types.
TypedFunctionStmts ==
    {[op |-> "FunctionDeclaration", id |-> "f", type |-> leftOnRead,
      params |-> <<[id |-> "x", type |-> t1], [id |-> "y", type |-> t2]>>] :
        t1 \in OperandTypes, t2 \in OperandTypes}

\* The binary operators, as the sequences of their characters.
ArithmeticOps == {<<"^">>, <<"-">>, <<"*">>, <<"%">>, <<"/">>}
BinaryOps ==
    ArithmeticOps \cup
    {<<"+">>, <<"&", "&">>, <<"|", "|">>, <<"<">>, <<"<", "=">>, <<">">>,
     <<">", "=">>, <<"=", "=">>, <<"!", "=">>}

\* Expression statements: a binary expression on x and y (this.op is held by
\* operator here).
BinaryStmts ==
    {[op |-> "BinaryExpression", operator |-> o,
      left |-> IdentifierExpression("x"), right |-> IdentifierExpression("y")] :
        o \in BinaryOps}

Statements ==
    VarStmts \cup FunctionStmts \cup ClassStmts \cup WhileStmts
    \cup ClassicForStmts \cup SpreadForStmts \cup IfStmts \cup SwitchStmts
    \cup BreakStmts \cup ContinueStmts \cup ReturnStmts \cup PrintStmts

Loops == {"WhileStatement", "ClassicForLoop", "SpreadForLoop"}

\* The number of bodies that follow a statement in walk order.
Bodies(s) ==
    CASE s.op \in Loops \cup {"FunctionDeclaration", "ClassDeclaration"} -> 1
      [] s.op = "IfStatement" ->
            Len(s.tests) + (IF s.alternate THEN 1 ELSE 0)
      [] s.op = "SwitchStatement" ->
            Len(s.cases) + (IF s.alternate THEN 1 ELSE 0)
      [] OTHER -> 0

\* The expression nodes a statement owns.
ExprSlots(at, s) ==
    CASE s.op = "VariableDeclaration" -> Slots(at, "expressions", Len(s.expressions))
      [] s.op = "WhileStatement" -> Slots(at, "expression", 1)
      [] s.op = "ClassicForLoop" ->
            Slots(at, "initexpression", 1) \cup Slots(at, "testExpression", 1)
      [] s.op = "SpreadForLoop" -> Slots(at, "min", 1) \cup Slots(at, "max", 1)
      [] s.op = "IfStatement" -> Slots(at, "tests", Len(s.tests))
      [] s.op = "SwitchStatement" ->
            Slots(at, "expression", 1) \cup Slots(at, "cases", Len(s.cases))
      [] s.op = "ReturnStatement" -> Slots(at, "expression", 1)
      [] s.op = "PrintStatement" -> Slots(at, "expression", 1)
      [] OTHER -> {}

-----------------------------------------------------------------------------
(* The analyze calls in progress.  A frame stands for the call that is     *)
(* walking a body: ctx is the context its statements are analysed in.      *)

Frame(kind, ctx, at) ==
    [kind |-> kind, ctx |-> ctx, at |-> at,
     outer |-> 0, more |-> 0, cases |-> <<>>, idx |-> 0, alternate |-> FALSE]

Top == stack[Len(stack)]
Pop(st) == SubSeq(st, 1, Len(st) - 1)

\* What a rule did: err when it threw, h the contexts after it, typed the
\* expression nodes it typed, stack the calls in progress when it goes on.
Result(err, h, tp, st) == [err |-> err, h |-> h, typed |-> tp, stack |-> st]

\* The messages of the errors that the properties tell apart.
NotDeclared == "has not been declared"
ArityMismatch == "Number of ids does not equal number of exps"
AlreadyDeclared == "already declared in this scope"
CheckFailed == "check failed"

\* The message of the error a rule threw: the rules that tell their errors
\* apart name it in msg.
Message(r) == IF "msg" \in DOMAIN r THEN r.msg ELSE CheckFailed

-----------------------------------------------------------------------------
(* The analyze rules of the statements.  h: the contexts, c: the context   *)
(* the rule is called with, s: the node.                                   *)

\* The declaration site an entity stands for: the declaring statement and the
\* declared name.
Site(entity, id) == <<entity.at, id>>

\* The ids of a field of the statement at pc that resolve, with the site each
\* one resolves to.
ResolvedIds(h, c, ids, field) ==
    {[node |-> <<pc, field, i>>,
      site |-> Site(lookupVar(h, c, ids[i]).entity, ids[i])] :
        i \in {j \in 1..Len(ids) : lookupVar(h, c, ids[j]).found}}

\* The same for the identifier expressions among the expressions of a field.
Resolved(h, c, exprs, field) ==
    {[node |-> <<pc, field, i>>,
      site |-> Site(lookupVar(h, c, exprs[i].id).entity, exprs[i].id)] :
        i \in {j \in 1..Len(exprs) :
                    /\ exprs[j].node = "IdentifierExpression"
                    /\ lookupVar(h, c, exprs[j].id).found}}

\* An assignment rule without the constancy check of its targets.
AssignmentStatement_analyze_anyTarget(h, c, target, source, field) ==
    LET src == analyzeAll(h, c, source)
        t(i) == IdentifierDeclaration_analyze(h, c, target[i])
        undeclared == {i \in 1..Len(target) : ~t(i).found}
        rejected ==
            {i \in 1..Len(target) :
                ~check_isAssignableTo(analyze(h, c, source[i]).type,
                                      t(i).entity.type)}
    IN  [err |-> \/ src.err
                 \/ undeclared # {}
                 \/ Len(target) # Len(source)
                 \/ rejected # {},
         msg |-> IF src.err \/ undeclared # {} THEN NotDeclared
                 ELSE IF Len(target) # Len(source) THEN ArityMismatch
                 ELSE CheckFailed,
         typed |-> Slots(pc, field, src.n),
         refs |-> ResolvedIds(h, c, target, "target") \cup Resolved(h, c, source, field)]

\* An assignment rule without the comparison of the two lengths: the targets
\* that have a source are checked against it.
AssignmentStatement_analyze_anyLength(h, c, target, source, field) ==
    LET src == analyzeAll(h, c, source)
        t(i) == IdentifierDeclaration_analyze(h, c, target[i])
        undeclared == {i \in 1..Len(target) : ~t(i).found}
        rejected ==
            {i \in 1..Len(target) :
                /\ i <= Len(source)
                /\ \/ ~check_isAssignableTo(analyze(h, c, source[i]).type,
                                            t(i).entity.type)
                   \/ ~check_isNotConstant(t(i).entity)}
    IN  [err |-> src.err \/ undeclared # {} \/ rejected # {},
         msg |-> IF src.err \/ undeclared # {} THEN NotDeclared ELSE CheckFailed,
         typed |-> Slots(pc, field, src.n),
         refs |-> ResolvedIds(h, c, target, "target") \cup Resolved(h, c, source, field)]

\* AssignmentStatement.analyze on targets (ids) and sources of the statement
\* at pc; field names the field of the node that holds the sources.
AssignmentStatement_analyze(h, c, target, source, field) ==
    LET src == analyzeAll(h, c, source)
        t(i) == IdentifierDeclaration_analyze(h, c, target[i])
        undeclared == {i \in 1..Len(target) : ~t(i).found}
        rejected ==
            {i \in 1..Len(target) :
                \/ ~check_isAssignableTo(analyze(h, c, source[i]).type,
                                         t(i).entity.type)
                \/ ~check_isNotConstant(t(i).entity)}
    IN  [err |-> \/ src.err
                 \/ undeclared # {}
                 \/ Len(target) # Len(source)
                 \/ rejected # {},
         msg |-> IF src.err \/ undeclared # {} THEN NotDeclared
                 ELSE IF Len(target) # Len(source) THEN ArityMismatch
                 ELSE CheckFailed,
         typed |-> Slots(pc, field, src.n),
         refs |-> ResolvedIds(h, c, target, "target") \cup Resolved(h, c, source, field)]

\* ids.forEach(id => context.addVar(id, entity)): stops at the first throw.
RECURSIVE addVarAll(_, _, _, _)
addVarAll(h, c, ids, entity) ==
    IF ids = <<>>
    THEN [err |-> FALSE, h |-> h]
    ELSE LET r == addVar(h, c, Head(ids), entity)
         IN  IF r.err THEN r ELSE addVarAll(r.h, c, Tail(ids), entity)

\* A declaration rule that analyses the initializers before it adds the
\* names to the context.
VariableDeclaration_analyze_initFirst(h, c, s) ==
    LET variable == Entity("Variable", s.constant, s.type, compile, pc)
        init == analyzeAll(h, c, s.expressions)
        d == addVarAll(h, c, s.ids, variable)
        a == AssignmentStatement_analyze(d.h, c, s.ids, s.expressions,
                                         "expressions")
    IN  IF ~check_sameNumberOfInitializersAsVariables(s.expressions, s.ids)
        THEN Result(TRUE, h, {}, stack)
        ELSE IF init.err
             THEN [err |-> TRUE, h |-> h, typed |-> Slots(pc, "expressions", init.n),
                   stack |-> stack, msg |-> NotDeclared]
        ELSE IF d.err
             THEN [err |-> TRUE, h |-> d.h, typed |-> {}, stack |-> stack,
                   msg |-> AlreadyDeclared]
             ELSE [err |-> a.err, h |-> d.h, typed |-> a.typed, stack |-> stack,
                   msg |-> a.msg, refs |-> a.refs]

\* VariableDeclaration.analyze: the Variable is added under each id, then the
\* assignment of the initializers to the ids is analysed in the same context.
VariableDeclaration_analyze(h, c, s) ==
    LET variable == Entity("Variable", s.constant, s.type, compile, pc)
        d == addVarAll(h, c, s.ids, variable)
        a == AssignmentStatement_analyze(d.h, c, s.ids, s.expressions,
                                         "expressions")
    IN  IF ~check_sameNumberOfInitializersAsVariables(s.expressions, s.ids)
        THEN Result(TRUE, h, {}, stack)
        ELSE IF d.err
             THEN [err |-> TRUE, h |-> d.h, typed |-> {}, stack |-> stack,
                   msg |-> AlreadyDeclared]
             ELSE [err |-> a.err, h |-> d.h, typed |-> a.typed, stack |-> stack,
                   msg |-> a.msg, refs |-> a.refs]

\* Parameter.analyze: the parameters here have no default expression.
Parameter_analyze(h, c, p) ==
    addVar(h, c, p.id, Entity("Parameter", FALSE, p.type, compile, pc))

RECURSIVE analyzeParams(_, _, _)
analyzeParams(h, c, params) ==
    IF params = <<>>
    THEN [err |-> FALSE, h |-> h]
    ELSE LET r == Parameter_analyze(h, c, Head(params))
         IN  IF r.err THEN r ELSE analyzeParams(r.h, c, Tail(params))

\* The function's type is normalised after addVar, on the same object that
\* the context and the map entry point to: both see the normalised type.
FunctionDeclaration_analyze(h, c, s) ==
    LET type == IF s.type = leftOnRead THEN NoneType ELSE s.type
        this == [at |-> pc, run |-> compile, type |-> type]
        h1 == createChildContextForFunctionBody(h, c, this)
        bodyContext == Len(h1)
        ps == analyzeParams(h1, bodyContext, s.params)
        d == addVar(ps.h, c, s.id, Entity("Function", FALSE, type, compile, pc))
    IN  IF ps.err
        THEN Result(TRUE, ps.h, {}, stack)
        ELSE IF d.err
             THEN Result(TRUE, d.h, {}, stack)
             ELSE Result(FALSE, d.h, {},
                         Append(stack, Frame("FunctionDeclaration", bodyContext, pc)))

\* A class rule that walks the body in the context of the parameters.
ClassDeclaration_analyze_ownScope(h, c, s) ==
    LET d == addClass(h, c, s.id, Entity("Class", FALSE, undefined, compile, pc))
        h1 == createChildContextForFunctionBody(d.h, c, null)
        bodyContext == Len(h1)
        ps == analyzeParams(h1, bodyContext, s.params)
    IN  IF d.err
        THEN Result(TRUE, h, {}, stack)
        ELSE IF ps.err
             THEN Result(TRUE, ps.h, {}, stack)
             ELSE Result(FALSE, ps.h, {},
                         Append(stack, Frame("ClassDeclaration", bodyContext, pc)))

\* The body of a class is analysed in the context of the declaration, not in
\* bodyContext.
ClassDeclaration_analyze(h, c, s) ==
    LET d == addClass(h, c, s.id, Entity("Class", FALSE, undefined, compile, pc))
        h1 == createChildContextForFunctionBody(d.h, c, null)
        bodyContext == Len(h1)
        ps == analyzeParams(h1, bodyContext, s.params)
    IN  IF d.err
        THEN Result(TRUE, h, {}, stack)
        ELSE IF ps.err
             THEN Result(TRUE, ps.h, {}, stack)
             ELSE Result(FALSE, ps.h, {},
                         Append(stack, Frame("ClassDeclaration", c, pc)))

WhileStatement_analyze(h, c, s) ==
    LET e == analyze(h, c, s.expression)
        h1 == createChildContextForLoop(h, c)
    IN  IF e.err
        THEN Result(TRUE, h, {}, stack)
        ELSE IF ~check_isBoolean(e.type)
             THEN Result(TRUE, h, Slots(pc, "expression", 1), stack)
             ELSE Result(FALSE, h1, Slots(pc, "expression", 1),
                         Append(stack, Frame("WhileStatement", Len(h1), pc)))

\* A classic for loop rule that binds the index in the context of the loop
\* statement.
ClassicForLoop_analyze_enclosing(h, c, s) ==
    LET h1 == createChildContextForLoop(h, c)
        bodyContext == Len(h1)
        init == analyze(h1, bodyContext, s.initexpression)
        index == Entity("VariableDeclaration", FALSE, init.type, compile, pc)
        d == addVar(h1, c, s.initId, index)
        test == analyze(d.h, bodyContext, s.testExpression)
        variableToIncrement == lookupVar(d.h, bodyContext, s.updateid)
        tInit == Slots(pc, "initexpression", 1)
        tTest == Slots(pc, "testExpression", 1)
    IN  IF init.err
        THEN Result(TRUE, h1, {}, stack)
        ELSE IF ~check_isAssignableTo(init.type, s.type) \/ d.err
        THEN Result(TRUE, h1, tInit, stack)
        ELSE IF test.err
        THEN Result(TRUE, d.h, tInit, stack)
        ELSE IF \/ ~check_isBoolean(test.type)
                \/ ~variableToIncrement.found
                \/ ~check_isIntegerOrLong(variableToIncrement.entity.type)
        THEN Result(TRUE, d.h, tInit \cup tTest, stack)
        ELSE Result(FALSE, d.h, tInit \cup tTest,
                    Append(stack, Frame("ClassicForLoop", bodyContext, pc)))

\* ClassicForLoop.analyze: the index is bound in bodyContext, where the test,
\* the update target and the body are analysed.
ClassicForLoop_analyze(h, c, s) ==
    LET h1 == createChildContextForLoop(h, c)
        bodyContext == Len(h1)
        init == analyze(h1, bodyContext, s.initexpression)
        index == Entity("VariableDeclaration", FALSE, init.type, compile, pc)
        d == addVar(h1, bodyContext, s.initId, index)
        test == analyze(d.h, bodyContext, s.testExpression)
        variableToIncrement == lookupVar(d.h, bodyContext, s.updateid)
        tInit == Slots(pc, "initexpression", 1)
        tTest == Slots(pc, "testExpression", 1)
    IN  IF init.err
        THEN Result(TRUE, h1, {}, stack)
        ELSE IF ~check_isAssignableTo(init.type, s.type) \/ d.err
        THEN Result(TRUE, h1, tInit, stack)
        ELSE IF test.err
        THEN Result(TRUE, d.h, tInit, stack)
        ELSE IF \/ ~check_isBoolean(test.type)
                \/ ~variableToIncrement.found
                \/ ~check_isIntegerOrLong(variableToIncrement.entity.type)
        THEN Result(TRUE, d.h, tInit \cup tTest, stack)
        ELSE Result(FALSE, d.h, tInit \cup tTest,
                    Append(stack, Frame("ClassicForLoop", bodyContext, pc)))

SpreadForLoop_analyze(h, c, s) ==
    LET min == analyze(h, c, s.min)
        max == analyze(h, c, s.max)
        h1 == createChildContextForLoop(h, c)
        tMin == Slots(pc, "min", 1)
        tMax == Slots(pc, "max", 1)
    IN  IF min.err
        THEN Result(TRUE, h, {}, stack)
        ELSE IF ~check_isIntegerOrLong(min.type) \/ max.err
        THEN Result(TRUE, h, tMin, stack)
        ELSE IF ~check_isIntegerOrLong(max.type)
        THEN Result(TRUE, h, tMin \cup tMax, stack)
        ELSE Result(FALSE, h1, tMin \cup tMax,
                    Append(stack, Frame("SpreadForLoop", Len(h1), pc)))

\* All tests are analysed and checked first; then the first consequent is
\* walked in a block context of its own.  more counts the blocks still to
\* come (consequents, then the alternate).
IfStatement_analyze(h, c, s) ==
    LET throws == {i \in 1..Len(s.tests) : analyze(h, c, s.tests[i]).err}
        notBoolean ==
            {i \in 1..Len(s.tests) :
                ~check_isBoolean(analyze(h, c, s.tests[i]).type)}
        h1 == createChildContextForBlock(h, c)
    IN  IF throws \cup notBoolean # {}
        THEN LET i == Min(throws \cup notBoolean)
             IN  Result(TRUE, h,
                        Slots(pc, "tests", IF i \in throws THEN i - 1 ELSE i),
                        stack)
        ELSE Result(FALSE, h1, Slots(pc, "tests", Len(s.tests)),
                    Append(stack,
                        [Frame("IfStatement", Len(h1), pc) EXCEPT
                            !.outer = c,
                            !.more = Len(s.tests) - 1
                                     + (IF s.alternate THEN 1 ELSE 0)]))

\* A case rule without the check of the type of the case's expression.
Case_analyze_anyType(h, c, at, cases, idx, alternate, st) ==
    IF cases = <<>>
    THEN Result(FALSE, h, {},
                IF alternate THEN Append(st, Frame("DefaultCase", c, at)) ELSE st)
    ELSE LET e == analyze(h, c, Head(cases))
         IN  IF e.err
             THEN Result(TRUE, h, {}, st)
             ELSE Result(FALSE, h, {<<at, "cases", idx>>},
                         Append(st,
                            [Frame("Case", c, at) EXCEPT
                                !.cases = Tail(cases),
                                !.idx = idx + 1,
                                !.alternate = alternate]))

\* cases.forEach(c => new Case(c.expression, c.body).analyze(context)) from
\* the case with index idx on, for the switch statement at index at, and,
\* after the last case, the statement's last lines: the alternate becomes a
\* DefaultCase node that is not analysed (its body is walked by nobody).
\* Case.analyze analyses the expression, checks it and walks the body in the
\* context of the switch statement.
Case_analyze(h, c, at, cases, idx, alternate, st) ==
    IF cases = <<>>
    THEN Result(FALSE, h, {},
                IF alternate THEN Append(st, Frame("DefaultCase", c, at)) ELSE st)
    ELSE LET e == analyze(h, c, Head(cases))
         IN  IF e.err
             THEN Result(TRUE, h, {}, st)
             ELSE IF ~check_isBoolean(e.type)
             THEN Result(TRUE, h, {<<at, "cases", idx>>}, st)
             ELSE Result(FALSE, h, {<<at, "cases", idx>>},
                         Append(st,
                            [Frame("Case", c, at) EXCEPT
                                !.cases = Tail(cases),
                                !.idx = idx + 1,
                                !.alternate = alternate]))

SwitchStatement_analyze(h, c, s) ==
    LET e == analyze(h, c, s.expression)
        r == Case_analyze(h, c, pc, s.cases, 1, s.alternate, stack)
    IN  IF e.err
        THEN Result(TRUE, h, {}, stack)
        ELSE [r EXCEPT !.typed = @ \cup Slots(pc, "expression", 1)]

\* check.inLoop, then the rule's own test of context.inLoop.
BreakStatement_analyze(h, c, s) ==
    Result(~check_inLoop(h[c]) \/ ~h[c].inLoop, h, {}, stack)

ContinueStatement_analyze(h, c, s) ==
    Result(~check_inLoop(h[c]), h, {}, stack)

\* The rule tests the type field of the ReturnStatement node itself.
ReturnStatement_analyze(h, c, s) ==
    LET e == analyze(h, c, s.expression)
    IN  IF e.err
        THEN Result(TRUE, h, {}, stack)
        ELSE Result(\/ s.type = leftOnRead
                    \/ ~check_inFunction(h[c])
                    \/ ~check_isAssignableTo(e.type, h[c].currentFunction.type),
                    h, Slots(pc, "expression", 1), stack)

\* The rule does not analyse the expression.
PrintStatement_analyze(h, c, s) == Result(FALSE, h, {}, stack)

\* An assignment statement of the program.
AssignmentStatement_rule(h, c, s) ==
    LET a == AssignmentStatement_analyze(h, c, s.target, s.source, "source")
    IN  [err |-> a.err, msg |-> a.msg, h |-> h, typed |-> a.typed, stack |-> stack,
         refs |-> a.refs]

\* The params of the declaration an entity stands for.
Params(entity) == prog[entity.at].params

\* Call.analyze: the callee is looked up in the variable maps.
Call_analyze(h, c, s) ==
    LET id == lookupVar(h, c, s.id)
        args == analyzeAll(h, c, s.args)
        types == [i \in 1..Len(s.args) |-> analyze(h, c, s.args[i]).type]
        threw(msg, n) ==
            [err |-> TRUE, msg |-> msg, h |-> h,
             typed |-> Slots(pc, "args", n), stack |-> stack]
    IN  IF ~id.found
        THEN threw(NotDeclared, 0)
        ELSE IF ~check_isFunctionOrClass(id.entity)
        THEN threw(CheckFailed, 0)
        ELSE IF args.err
        THEN threw(NotDeclared, args.n)
        ELSE IF \/ ~check_legalArguments(types, Params(id.entity))
                \/ ~check_asyncAwait(FALSE, s.wait)
        THEN threw(CheckFailed, args.n)
        ELSE [err |-> FALSE, h |-> h, typed |-> Slots(pc, "args", args.n),
              stack |-> stack, type |-> id.entity.type]

\* CallStatement.analyze: this.call.analyze(context).
CallStatement_analyze(h, c, s) == Call_analyze(h, c, s)

\* The type object that analyze leaves in the type field of the member at
\* position i of a tuple: type is its descriptor; obj tells the objects
\* apart.  The built-in types are one object each (obj = 0); an array literal
\* makes a new ArrayType object of its own.
TypeObject(h, c, e, i) ==
    [type |-> analyze(h, c, e).type,
     obj |-> IF e.node = "ArrayExpression" THEN i ELSE 0]

\* new TupleType(memberTypes), new SetType(memberType): the type objects of
\* a tuple literal.
StructuredType(variant, memberTypes) ==
    [variant |-> variant, memberTypes |-> memberTypes]

\* TupleExpression.analyze: memTypes is a Set of the type objects of the
\* members, which holds an object once, in the order of the first insertion;
\* the tuple's type is made of the array [...memTypes].
TupleExpression_analyze(h, c, s) ==
    LET n == Len(s.expressions)
        throws == {i \in 1..n : analyze(h, c, s.expressions[i]).err}
        mem(i) == TypeObject(h, c, s.expressions[i], i)
        added == SelectSeq([i \in 1..n |-> i],
                           LAMBDA i : \A j \in 1..(i - 1) : mem(j) # mem(i))
        memTypes == [k \in 1..Len(added) |-> mem(added[k])]
    IN  IF throws # {}
        THEN [err |-> TRUE, msg |-> NotDeclared, h |-> h,
              typed |-> Slots(pc, "expressions", Min(throws) - 1), stack |-> stack]
        ELSE [err |-> FALSE, h |-> h, typed |-> Slots(pc, "expressions", n),
              stack |-> stack,
              type |-> IF n > 0
                       THEN StructuredType("TupleType", memTypes)
                       ELSE StructuredType("SetType",
                                           <<[type |-> NoneType, obj |-> 0]>>)]

\* check.isNotSubscriptable: the base is a declaration of a collection type
\* (the collections here are the arrays).
check_isNotSubscriptable(entity) ==
    entity.type \in {ArrayType(t) : t \in builtinTypes}

\* SubscriptedExpression.analyze: varexp becomes the declaration that its id
\* resolves to; the two checks follow, the second one on the subscript node
\* as the parser left it (no analyze rule has set its type yet); then the
\* declaration (a parameter here) and the subscript are analysed.
SubscriptedExpression_analyze(h, c, s) ==
    LET varexp == lookupVar(h, c, s.varexp.id)
        type == undefined
        p == Parameter_analyze(h, c, [id |-> s.varexp.id, type |-> varexp.entity.type])
        subscript == analyze(p.h, c, s.subscript)
        threw(msg, h1) ==
            [err |-> TRUE, msg |-> msg, h |-> h1, typed |-> {}, stack |-> stack]
    IN  IF ~varexp.found
        THEN threw(NotDeclared, h)
        ELSE IF ~check_isNotSubscriptable(varexp.entity) \/ ~check_isInteger(type)
        THEN threw(CheckFailed, h)
        ELSE IF p.err
        THEN threw(AlreadyDeclared, h)
        ELSE IF subscript.err
        THEN threw(NotDeclared, p.h)
        ELSE Result(FALSE, p.h, Slots(pc, "subscript", 1), stack)

\* BinaryExpression.analyze of an expression statement: the operands are
\* analysed first, left then right.
BinaryExpression_analyze(h, c, s) ==
    LET left == analyze(h, c, s.left)
        right == analyze(h, c, s.right)
        r == BinaryExpression_check(s.operator, left.type, right.type)
        threw(msg, tp) ==
            [err |-> TRUE, msg |-> msg, h |-> h, typed |-> tp, stack |-> stack]
    IN  IF left.err
        THEN threw(NotDeclared, {})
        ELSE IF right.err
        THEN threw(NotDeclared, Slots(pc, "left", 1))
        ELSE IF r.err
        THEN threw(CheckFailed, Slots(pc, "left", 1) \cup Slots(pc, "right", 1))
        ELSE [err |-> FALSE, h |-> h,
              typed |-> Slots(pc, "left", 1) \cup Slots(pc, "right", 1),
              stack |-> stack, type |-> r.type]

-----------------------------------------------------------------------------
(* backend/javascript-generator: the names of the output.  A name of the   *)
(* output is the source name of a declaration and the number the generator *)
(* gave to the declaration when it first wrote it.                         *)

\* The generator before it wrote anything: pc is the statement it writes
\* next, names the numbers given so far, out the names written so far.
Generator == [pc |-> 1, lastId |-> 0, names |-> EmptyMap, out |-> <<>>]

\* A table of numbers kept by source name.
jsName_byName(g, site) ==
    LET same == {k \in DOMAIN g.names : k[2] = site[2]}
    IN  IF site \in DOMAIN g.names
        THEN g
        ELSE IF same # {}
        THEN [g EXCEPT !.names = MapSet(@, site, g.names[CHOOSE k \in same : TRUE])]
        ELSE [g EXCEPT !.lastId = @ + 1,
                       !.names = MapSet(@, site, g.lastId + 1)]

\* The number of a declaration site: the next number when the site has none.
jsName(g, site) ==
    IF site \in DOMAIN g.names
    THEN g
    ELSE [g EXCEPT !.lastId = @ + 1, !.names = MapSet(@, site, g.lastId + 1)]

\* The generator writes the names of the sites, in order, for statement at.
RECURSIVE write(_, _, _)
write(g, sites, at) ==
    IF sites = <<>>
    THEN g
    ELSE LET g1 == jsName(g, Head(sites))
             name == [site |-> Head(sites),
                      text |-> <<Head(sites)[2], g1.names[Head(sites)]>>,
                      at |-> at]
         IN  write([g1 EXCEPT !.out = Append(@, name)], Tail(sites), at)

\* The sites the identifier nodes of a field of statement at resolved to, in
\* the order of the nodes.
RECURSIVE FieldSites(_, _, _, _, _)
FieldSites(rs, at, field, i, n) ==
    IF i > n
    THEN <<>>
    ELSE LET here == {r \in rs : r.node = <<at, field, i>>}
         IN  (IF here = {} THEN <<>> ELSE <<(CHOOSE r \in here : TRUE).site>>)
             \o FieldSites(rs, at, field, i + 1, n)

\* The names a statement is written with: a declaration writes the names it
\* declares and then its initializers, an assignment its targets and then
\* its sources, a function its name and then its parameters.
StatementSites(rs, at, s) ==
    CASE s.op = "VariableDeclaration" ->
            [i \in 1..Len(s.ids) |-> <<at, s.ids[i]>>]
            \o FieldSites(rs, at, "expressions", 1, Len(s.expressions))
      [] s.op = "AssignmentStatement" ->
            FieldSites(rs, at, "target", 1, Len(s.target))
            \o FieldSites(rs, at, "source", 1, Len(s.source))
      [] s.op = "FunctionDeclaration" ->
            <<<<at, s.id>>>> \o [i \in 1..Len(s.params) |-> <<at, s.params[i].id>>]
      [] OTHER -> <<>>

-----------------------------------------------------------------------------
(* The walk.                                                               *)

\* module.exports = program => program.analyze(Context.INITIAL): the walk
\* starts in Context.INITIAL itself.
Program == <<Frame("Program", 1, 0)>>

Init ==
    /\ ctxs = <<INITIAL>>
    /\ stack = Program
    /\ prog = <<>>
    /\ pc = 1
    /\ compile = 1
    /\ status = "running"
    /\ typed = {}
    /\ thrown = ""
    /\ exprType = undefined
    /\ refs = {}
    /\ gen = Generator

\* Bodies that no rule walks: the body of a default case and what it holds.
Unwalked == {"DefaultCase", "unwalked"}

\* A walk that goes on with the next statement after a rule threw.
Feed_afterThrow(s) ==
    /\ \/ /\ compile = 1
          /\ Len(prog) < MaxLen
          /\ prog' = Append(prog, s)
       \/ /\ compile = 2
          /\ pc <= Len(prog)
          /\ prog[pc] = s
          /\ prog' = prog
    /\ pc' = pc + 1
    /\ compile' = compile

\* The statement analysed next is s: chosen freely while the first compile
\* walks the program, read from prog by the second compile.
Feed(s) ==
    /\ status = "running"
    /\ \/ /\ compile = 1
          /\ Len(prog) < MaxLen
          /\ prog' = Append(prog, s)
       \/ /\ compile = 2
          /\ pc <= Len(prog)
          /\ prog[pc] = s
          /\ prog' = prog
    /\ pc' = pc + 1
    /\ compile' = compile

\* A rule returned or threw.  A throw unwinds every call; stack keeps the
\* calls that were in progress at the throw.
Done(r) ==
    /\ ctxs' = r.h
    /\ typed' = typed \cup r.typed
    /\ status' = IF r.err THEN "failed" ELSE "running"
    /\ stack' = IF r.err THEN stack ELSE r.stack
    /\ thrown' = IF r.err THEN Message(r) ELSE ""
    /\ exprType' = IF "type" \in DOMAIN r THEN r.type ELSE undefined
    /\ refs' = IF "refs" \in DOMAIN r THEN refs \cup r.refs ELSE refs
    /\ gen' = gen

Walked(S, s) == s \in S /\ Top.kind \notin Unwalked /\ Feed(s)

VariableDeclaration ==
    \E s \in VarStmts :
        Walked(VarStmts, s) /\ Done(VariableDeclaration_analyze(ctxs, Top.ctx, s))

FunctionDeclaration ==
    \E s \in FunctionStmts :
        Walked(FunctionStmts, s) /\ Done(FunctionDeclaration_analyze(ctxs, Top.ctx, s))

ClassDeclaration ==
    \E s \in ClassStmts :
        Walked(ClassStmts, s) /\ Done(ClassDeclaration_analyze(ctxs, Top.ctx, s))

WhileStatement ==
    \E s \in WhileStmts :
        Walked(WhileStmts, s) /\ Done(WhileStatement_analyze(ctxs, Top.ctx, s))

ClassicForLoop ==
    \E s \in ClassicForStmts :
        Walked(ClassicForStmts, s) /\ Done(ClassicForLoop_analyze(ctxs, Top.ctx, s))

SpreadForLoop ==
    \E s \in SpreadForStmts :
        Walked(SpreadForStmts, s) /\ Done(SpreadForLoop_analyze(ctxs, Top.ctx, s))

IfStatement ==
    \E s \in IfStmts :
        Walked(IfStmts, s) /\ Done(IfStatement_analyze(ctxs, Top.ctx, s))

SwitchStatement ==
    \E s \in SwitchStmts :
        Walked(SwitchStmts, s) /\ Done(SwitchStatement_analyze(ctxs, Top.ctx, s))

BreakStatement ==
    \E s \in BreakStmts :
        Walked(BreakStmts, s) /\ Done(BreakStatement_analyze(ctxs, Top.ctx, s))

ContinueStatement ==
    \E s \in ContinueStmts :
        Walked(ContinueStmts, s) /\ Done(ContinueStatement_analyze(ctxs, Top.ctx, s))

ReturnStatement ==
    \E s \in ReturnStmts :
        Walked(ReturnStmts, s) /\ Done(ReturnStatement_analyze(ctxs, Top.ctx, s))

PrintStatement ==
    \E s \in PrintStmts :
        Walked(PrintStmts, s) /\ Done(PrintStatement_analyze(ctxs, Top.ctx, s))

\* Block.analyze returns at the end of the body of a function, a class or a
\* loop, and the rule that called it returns.
Block_end ==
    \E s \in EndStmts :
        /\ Top.kind \in Loops \cup {"FunctionDeclaration", "ClassDeclaration"}
        /\ Feed(s)
        /\ Done(Result(FALSE, ctxs, {}, Pop(stack)))

\* The end of a block of an if statement after which the next block is walked
\* in the context of the block before it.
IfStatement_next_sameBlock ==
    \E s \in EndStmts :
        /\ Top.kind = "IfStatement"
        /\ Feed(s)
        /\ IF Top.more > 0
           THEN Done(Result(FALSE, ctxs, {},
                     Append(Pop(stack), [Top EXCEPT !.more = @ - 1])))
           ELSE Done(Result(FALSE, ctxs, {}, Pop(stack)))

\* IfStatement.analyze at the end of a block: the next consequent or the
\* alternate is walked in a new block context made from the context of the
\* if statement; after the last block the rule returns.
IfStatement_next ==
    \E s \in EndStmts :
        /\ Top.kind = "IfStatement"
        /\ Feed(s)
        /\ IF Top.more > 0
           THEN LET h1 == createChildContextForBlock(ctxs, Top.outer)
                IN  Done(Result(FALSE, h1, {},
                         Append(Pop(stack),
                            [Top EXCEPT !.ctx = Len(h1), !.more = @ - 1])))
           ELSE Done(Result(FALSE, ctxs, {}, Pop(stack)))

\* SwitchStatement.analyze at the end of the body of a case: the next case.
SwitchStatement_next ==
    \E s \in EndStmts :
        /\ Top.kind = "Case"
        /\ Feed(s)
        /\ Done(Case_analyze(ctxs, Top.ctx, Top.at, Top.cases, Top.idx,
                             Top.alternate, Pop(stack)))

\* A statement of a body that no rule walks: nothing is analysed.
Unwalked_statement ==
    \E s \in Statements :
        /\ Top.kind \in Unwalked
        /\ Feed(s)
        /\ Done(Result(FALSE, ctxs, {},
                IF Bodies(s) > 0
                THEN Append(stack,
                        [Frame("unwalked", Top.ctx, pc) EXCEPT
                            !.more = Bodies(s) - 1])
                ELSE stack))

Unwalked_end ==
    \E s \in EndStmts :
        /\ Top.kind \in Unwalked
        /\ Feed(s)
        /\ Done(Result(FALSE, ctxs, {},
                IF Top.more > 0
                THEN Append(Pop(stack), [Top EXCEPT !.more = @ - 1])
                ELSE Pop(stack)))

\* Program.analyze returns: every statement of the program was walked.
Program_end ==
    /\ status = "running"
    /\ Len(stack) = 1
    /\ compile = 2 => pc > Len(prog)
    /\ status' = "accepted"
    /\ UNCHANGED <<ctxs, stack, prog, pc, compile, typed, thrown, exprType,
                   refs, gen>>

\* The same tree is analysed again (as the generator tests do for each of
\* their programs in turn: ast.analyze(Context.INITIAL)).  Context.INITIAL
\* is the same object; the contexts of the first walk are garbage.
Recompile ==
    /\ status = "accepted"
    /\ compile = 1
    /\ compile' = 2
    /\ status' = "running"
    /\ pc' = 1
    /\ stack' = Program
    /\ ctxs' = <<ctxs[1]>>
    /\ typed' = {}
    /\ thrown' = ""
    /\ exprType' = undefined
    /\ refs' = {}
    /\ UNCHANGED <<prog, gen>>

Next ==
    \/ VariableDeclaration
    \/ FunctionDeclaration
    \/ ClassDeclaration
    \/ WhileStatement
    \/ ClassicForLoop
    \/ SpreadForLoop
    \/ IfStatement
    \/ SwitchStatement
    \/ BreakStatement
    \/ ContinueStatement
    \/ ReturnStatement
    \/ PrintStatement
    \/ Block_end
    \/ IfStatement_next
    \/ SwitchStatement_next
    \/ Unwalked_statement
    \/ Unwalked_end
    \/ Program_end
    \/ Recompile

Spec == Init /\ [][Next]_vars

-----------------------------------------------------------------------------
(* Programs of calls, of assignments and of binary expressions.            *)

CallStatement ==
    \E s \in CallStmts :
        Walked(CallStmts, s) /\ Done(CallStatement_analyze(ctxs, Top.ctx, s))

\* The statements of the tree that follow the one whose rule threw: they are
\* part of the program, and no rule is called on them.
Program_rest ==
    \E s \in FunctionStmts \cup CallStmts :
        /\ status = "failed"
        /\ Len(prog) < MaxLen
        /\ prog' = Append(prog, s)
        /\ UNCHANGED <<ctxs, stack, pc, compile, status, typed, thrown, exprType,
                       refs, gen>>

NextCall ==
    \/ VariableDeclaration
    \/ FunctionDeclaration
    \/ ClassDeclaration
    \/ CallStatement
    \/ Block_end
    \/ Program_end
    \/ Program_rest

SpecCall == Init /\ [][NextCall]_vars

VariableDeclaration_any ==
    \E s \in DeclarationStmts :
        /\ Walked(DeclarationStmts, s)
        /\ Done(VariableDeclaration_analyze(ctxs, Top.ctx, s))

AssignmentStatement ==
    \E s \in AssignmentStmts :
        Walked(AssignmentStmts, s) /\ Done(AssignmentStatement_rule(ctxs, Top.ctx, s))

\* module.exports is called with another program: Context.INITIAL is the
\* object the program before was analysed with.
Compile_next ==
    /\ status \in {"accepted", "failed"}
    /\ prog' = <<>>
    /\ pc' = 1
    /\ stack' = Program
    /\ ctxs' = <<ctxs[1]>>
    /\ status' = "running"
    /\ typed' = {}
    /\ thrown' = ""
    /\ exprType' = undefined
    /\ refs' = {}
    /\ UNCHANGED <<compile, gen>>

NextAssignment ==
    \/ VariableDeclaration_any
    \/ AssignmentStatement
    \/ WhileStatement
    \/ Block_end
    \/ Program_end
    \/ Compile_next

SpecAssignment == Init /\ [][NextAssignment]_vars

\* The functions of these programs are declared at top level.
FunctionDeclaration_typed ==
    \E s \in TypedFunctionStmts :
        /\ Len(stack) = 1
        /\ Walked(TypedFunctionStmts, s)
        /\ Done(FunctionDeclaration_analyze(ctxs, Top.ctx, s))

BinaryExpression ==
    \E s \in BinaryStmts :
        Walked(BinaryStmts, s) /\ Done(BinaryExpression_analyze(ctxs, Top.ctx, s))

\* The generator writes the next statement of a program that the analyzer
\* accepted.
generate ==
    /\ status = "accepted"
    /\ gen.pc <= Len(prog)
    /\ gen' = [write(gen, StatementSites(refs, gen.pc, prog[gen.pc]), gen.pc)
                    EXCEPT !.pc = @ + 1]
    /\ UNCHANGED <<ctxs, stack, prog, pc, compile, status, typed, thrown,
                   exprType, refs>>

NextGenerator ==
    \/ VariableDeclaration
    \/ AssignmentStatement
    \/ FunctionDeclaration
    \/ IfStatement
    \/ IfStatement_next
    \/ Block_end
    \/ Program_end
    \/ generate

SpecGenerator == Init /\ [][NextGenerator]_vars

NextBinary ==
    \/ FunctionDeclaration_typed
    \/ BinaryExpression
    \/ Block_end
    \/ Program_end

SpecBinary == Init /\ [][NextBinary]_vars

-----------------------------------------------------------------------------
(* Vocabulary of the properties.                                           *)

Max(S) == CHOOSE m \in S : \A n \in S : m >= n

\* A statement was analysed (or passed over) in the current compile.
Stepped == pc > 1

\* The statement the last step was about.
Last == prog[pc - 1]

\* The last statement was handed to its analyze rule.
LastWalked == Stepped /\ Top.kind \notin Unwalked

\* The expressions a statement holds.
StmtExprs(s) ==
    CASE s.op = "VariableDeclaration" -> {s.expressions[i] : i \in 1..Len(s.expressions)}
      [] s.op = "WhileStatement" -> {s.expression}
      [] s.op = "ClassicForLoop" -> {s.initexpression, s.testExpression}
      [] s.op = "SpreadForLoop" -> {s.min, s.max}
      [] s.op = "IfStatement" -> {s.tests[i] : i \in 1..Len(s.tests)}
      [] s.op = "SwitchStatement" ->
            {s.expression} \cup {s.cases[i] : i \in 1..Len(s.cases)}
      [] s.op = "ReturnStatement" -> {s.expression}
      [] s.op = "PrintStatement" -> {s.expression}
      [] OTHER -> {}

\* The contexts on the parent chain of c, c included.
RECURSIVE Chain(_, _)
Chain(h, c) == IF c = 0 THEN {} ELSE {c} \cup Chain(h, h[c].parent)

\* The contexts on the chain of c that hold id in their own variable map.
Holders(h, c, id) == {a \in Chain(h, c) : id \in DOMAIN h[a].variableDeclarations}

\* The bodies that enclose the last statement, as positions of stack.
LoopFrames == {i \in 1..Len(stack) : stack[i].kind \in Loops}
FunctionFrames == {i \in 1..Len(stack) : stack[i].kind = "FunctionDeclaration"}

\* The last statement sits in a loop body, directly or through if/else blocks.
InLoopBody ==
    \E i \in LoopFrames : \A j \in (i + 1)..Len(stack) : stack[j].kind = "IfStatement"

\* The declared return type of the nearest function that encloses the last
\* statement, as written in the program.
DeclaredReturnType == prog[stack[Max(FunctionFrames)].at].type

LiteralType(e) ==
    CASE e.node = "StringLiteral" -> StringType
      [] e.node = "NoneLiteral" -> NoneType
      [] e.node = "BooleanLiteral" -> BooleanType
      [] e.node = "NumericLiteral" -> IntType

-----------------------------------------------------------------------------
(* C1..C10.                                                                *)

\* C1: a declaration of the name n (a variable or a function) analysed in
\* context c throws and leaves c's variable map as it was when n is a key of
\* c's own map; otherwise n is added to c's own map, also when an ancestor
\* of c holds n, no other context is changed, and the statement is accepted
\* when nothing else in it can throw.
C1_DeclareInOwnScope ==
    [][(/\ pc' = pc + 1
        /\ Top.kind \notin Unwalked
        /\ prog'[pc].op \in {"VariableDeclaration", "FunctionDeclaration"})
       => LET s == prog'[pc]
              n == IF s.op = "VariableDeclaration" THEN s.ids[1] ELSE s.id
              c == Top.ctx
              own == ctxs[c].variableDeclarations
          IN  /\ n \in DOMAIN own
                    => /\ status' = "failed"
                       /\ ctxs'[c].variableDeclarations = own
              /\ n \notin DOMAIN own
                    => /\ n \in DOMAIN ctxs'[c].variableDeclarations
                       /\ ctxs'[c].variableDeclarations[n].at = pc
                       /\ DOMAIN ctxs'[c].variableDeclarations = (DOMAIN own) \cup {n}
                       /\ \A k \in DOMAIN own : ctxs'[c].variableDeclarations[k] = own[k]
                       /\ \A a \in (DOMAIN ctxs) \ {c} : ctxs'[a] = ctxs[a]
                       /\ (\/ s.op = "FunctionDeclaration"
                           \/ s.expressions[1].node # "IdentifierExpression")
                              => status' = "running"]_vars

\* A name is declared in a context and in an ancestor of it, and the walk
\* goes on.
C1_Witness ==
    /\ status = "running"
    /\ \E c \in DOMAIN ctxs : \E n \in Names :
          /\ n \in DOMAIN ctxs[c].variableDeclarations
          /\ ctxs[c].variableDeclarations[n].kind = "Variable"
          /\ Holders(ctxs, ctxs[c].parent, n) # {}

\* C2: from every context c and for every name n, lookupVar finds n exactly
\* when a context on the parent chain of c holds n, and then returns the
\* entry of the nearest such context (parents are created before their
\* children, so the nearest is the youngest); a context off the chain is
\* never the source.
C2_LookupNearest ==
    \A c \in DOMAIN ctxs : \A n \in Names :
        LET r == lookupVar(ctxs, c, n)
            holders == Holders(ctxs, c, n)
        IN  /\ r.found <=> holders # {}
            /\ r.found
                  => /\ r.ctx = Max(holders)
                     /\ r.entity = ctxs[r.ctx].variableDeclarations[n]

\* A name is held by two contexts of one chain and by a context off it.
C2_Witness ==
    \E c \in DOMAIN ctxs : \E n \in Names :
        /\ Cardinality(Holders(ctxs, c, n)) >= 2
        /\ \E a \in (DOMAIN ctxs) \ Chain(ctxs, c) :
              n \in DOMAIN ctxs[a].variableDeclarations

\* C3: no analysis changes the variable map or the class map of the root
\* context.
C3_RootUnchanged == ctxs[1] = INITIAL

\* C4: a program accepted by the first compile is not rejected by the
\* second compile (the second compile starts only after the first accepted).
C4_SecondCompileAccepted == compile = 2 => status # "failed"

\* C5: a statement that holds a reference to a name that no context on the
\* chain of the point of use declares makes the analysis fail.
C5_UndeclaredFails ==
    Stepped =>
        \A e \in StmtExprs(Last) :
            (/\ e.node = "IdentifierExpression"
             /\ ~lookupVar(ctxs, Top.ctx, e.id).found)
                => status = "failed"

\* C6: when the analysis returns, every expression node of the program
\* carries a type.
C6_AllTyped ==
    status = "accepted" =>
        \A i \in 1..Len(prog) : ExprSlots(i, prog[i]) \subseteq typed

\* C7: a break or a continue that no loop body encloses is rejected; one in
\* a loop body, directly or through if/else blocks, is not.
C7_BreakContinue ==
    (Stepped /\ Last.op \in {"BreakStatement", "ContinueStatement"}) =>
        /\ LoopFrames = {} => status = "failed"
        /\ InLoopBody => status # "failed"

\* C8: a top-level switch on an Integer variable with two cases whose
\* expressions are integer literals, and a default case, is not rejected.
C8_SwitchAccepted ==
    (/\ Stepped
     /\ Last.op = "SwitchStatement"
     /\ Last.cases = <<NumericLiteral, NumericLiteral>>
     /\ Last.alternate
     /\ Top.ctx = 1
     /\ Top.kind \in {"Program", "Case"}
     /\ lookupVar(ctxs, 1, Last.expression.id).found
     /\ lookupVar(ctxs, 1, Last.expression.id).entity.type = IntType)
        => status # "failed"

\* C9: a return statement handed to its rule is rejected when no function
\* body encloses it; when one does, through any loops and if/else blocks, it
\* is rejected exactly when the type of its expression is not the declared
\* return type (None for leftOnRead) of the nearest enclosing function.
C9_ReturnPlacement ==
    (LastWalked /\ Last.op = "ReturnStatement") =>
        /\ FunctionFrames = {} => status = "failed"
        /\ FunctionFrames # {} =>
              (status = "failed" <=>
                  LiteralType(Last.expression) #
                      (IF DeclaredReturnType = leftOnRead
                       THEN NoneType ELSE DeclaredReturnType))

\* A return is accepted in an if block in a loop in a function body.
C9_Witness ==
    /\ LastWalked
    /\ Last.op = "ReturnStatement"
    /\ status = "running"
    /\ \E i \in FunctionFrames : \E j \in LoopFrames :
          i < j /\ j < Len(stack) /\ Top.kind = "IfStatement"

\* C10: a return statement with an expression in the body of a function
\* declared leftOnRead is rejected.
C10_VoidReturnFails ==
    (/\ LastWalked
     /\ Last.op = "ReturnStatement"
     /\ FunctionFrames # {}
     /\ DeclaredReturnType = leftOnRead)
        => status = "failed"

-----------------------------------------------------------------------------
(* Programs of switch statements.                                          *)

SwitchStatement_cases ==
    \E s \in SwitchCaseStmts :
        Walked(SwitchCaseStmts, s) /\ Done(SwitchStatement_analyze(ctxs, Top.ctx, s))

NextSwitch ==
    \/ VariableDeclaration
    \/ SwitchStatement_cases
    \/ SwitchStatement_next
    \/ Program_end

SpecSwitch == Init /\ [][NextSwitch]_vars

-----------------------------------------------------------------------------
(* Programs of classes with a constructor parameter.                       *)

ClassDeclaration_params ==
    \E s \in ClassParamStmts :
        Walked(ClassParamStmts, s) /\ Done(ClassDeclaration_analyze(ctxs, Top.ctx, s))

NextClass ==
    \/ VariableDeclaration
    \/ FunctionDeclaration
    \/ ClassDeclaration_params
    \/ Block_end
    \/ Program_end

SpecClass == Init /\ [][NextClass]_vars

-----------------------------------------------------------------------------
(* Programs of if statements in loops and functions.                       *)

NextIf ==
    \/ VariableDeclaration
    \/ FunctionDeclaration
    \/ WhileStatement
    \/ IfStatement
    \/ IfStatement_next
    \/ Block_end
    \/ Program_end

SpecIf == Init /\ [][NextIf]_vars

-----------------------------------------------------------------------------
(* Programs of classic for loops with an index.                            *)

ClassicForLoop_index ==
    \E s \in ClassicForIndexStmts :
        /\ Walked(ClassicForIndexStmts, s)
        /\ Done(ClassicForLoop_analyze(ctxs, Top.ctx, s))

NextFor ==
    \/ VariableDeclaration
    \/ ClassicForLoop_index
    \/ AssignmentStatement
    \/ Block_end
    \/ Program_end

SpecFor == Init /\ [][NextFor]_vars

-----------------------------------------------------------------------------
(* Programs of tuple literals and subscripts.                              *)

TupleExpression ==
    \E s \in TupleStmts :
        Walked(TupleStmts, s) /\ Done(TupleExpression_analyze(ctxs, Top.ctx, s))

FunctionDeclaration_array ==
    \E s \in ArrayFunctionStmts :
        /\ Len(stack) = 1
        /\ Walked(ArrayFunctionStmts, s)
        /\ Done(FunctionDeclaration_analyze(ctxs, Top.ctx, s))

SubscriptedExpression ==
    \E s \in SubscriptStmts :
        /\ Walked(SubscriptStmts, s)
        /\ Done(SubscriptedExpression_analyze(ctxs, Top.ctx, s))

NextCollections ==
    \/ TupleExpression
    \/ FunctionDeclaration_array
    \/ SubscriptedExpression
    \/ Block_end
    \/ Program_end

SpecCollections == Init /\ [][NextCollections]_vars

-----------------------------------------------------------------------------
(* C11..C20.                                                               *)

\* The function f is declared in the scope of the last statement: before it,
\* or by the statement that follows it in the same body.
DeclaredBefore(id) == id \in DOMAIN ctxs[Top.ctx].variableDeclarations
DeclaredAfter(id) ==
    /\ pc <= Len(prog)
    /\ prog[pc].op = "FunctionDeclaration"
    /\ prog[pc].id = id

LastIsCall == LastWalked /\ Last.op = "CallStatement"

\* C11: a call statement whose callee f is a function declared in the scope
\* of the call, by a statement before the call or by the statement after it,
\* resolves its callee: it does not throw the "has not been declared" error.
C11_CallBeforeOrAfter ==
    (LastIsCall /\ Last.id = "f" /\ (DeclaredBefore("f") \/ DeclaredAfter("f")))
        => thrown # NotDeclared

\* C12: a call without arguments whose callee names a class that is visible
\* from the scope of the call (and no variable of that name is) is accepted.
C12_ClassCallAccepted ==
    (/\ LastIsCall
     /\ Last.id \in ClassNames
     /\ Last.args = <<>>
     /\ lookupClass(ctxs, Top.ctx, Last.id).found
     /\ ~lookupVar(ctxs, Top.ctx, Last.id).found)
        => status # "failed"

\* The targets of the assignment that the last statement is or makes.
LastIsAssignment ==
    LastWalked /\ Last.op \in {"AssignmentStatement", "VariableDeclaration"}
Targets(s) == IF s.op = "AssignmentStatement" THEN s.target ELSE s.ids
Sources(s) == IF s.op = "AssignmentStatement" THEN s.source ELSE s.expressions
ConstantTargets(s) ==
    {i \in 1..Len(Targets(s)) :
        LET t == lookupVar(ctxs, Top.ctx, Targets(s)[i])
        IN  t.found /\ t.entity.constant}

LastIsMismatch ==
    /\ LastWalked
    /\ Last.op = "AssignmentStatement"
    /\ Len(Last.target) # Len(Last.source)

\* Every identifier among the sources and the targets of s is declared.
AllResolve(s) ==
    /\ \A i \in 1..Len(s.source) :
            s.source[i].node = "IdentifierExpression"
                => lookupVar(ctxs, Top.ctx, s.source[i].id).found
    /\ \A i \in 1..Len(s.target) : lookupVar(ctxs, Top.ctx, s.target[i]).found

LastIsBinary ==
    /\ LastWalked
    /\ Last.op = "BinaryExpression"
    /\ lookupVar(ctxs, Top.ctx, Last.left.id).found
    /\ lookupVar(ctxs, Top.ctx, Last.right.id).found
LeftType == lookupVar(ctxs, Top.ctx, Last.left.id).entity.type
RightType == lookupVar(ctxs, Top.ctx, Last.right.id).entity.type

\* C15: a binary expression with an operator among ^ - * % / has the type
\* Integer when both operands are Integer, and makes the analysis fail when
\* one of them is not.
C15_Arithmetic ==
    (LastIsBinary /\ Last.operator \in ArithmeticOps) =>
        IF LeftType = IntType /\ RightType = IntType
        THEN status # "failed" /\ exprType = IntType
        ELSE status = "failed"

\* An Integer and a Long operand: rejected.
C15_Witness ==
    /\ LastIsBinary
    /\ Last.operator = <<"%">>
    /\ LeftType = IntType
    /\ RightType = LongType
    /\ status = "failed"

C17_SeededLookups ==
    \A c \in DOMAIN ctxs :
        /\ \A t \in builtinTypes : lookupClass(ctxs, c, t).found
        /\ \A f \in standardFunctions : lookupVar(ctxs, c, f).found

\* C18: once a rule threw, no statement is analysed and no context, no
\* declaration and no type is added.
C18_FailFast ==
    [][status = "failed" =>
        (pc' = pc /\ ctxs' = ctxs /\ typed' = typed /\ status' = "failed")]_vars

\* A rule threw in the second compile and statements of the program follow
\* the one it was called on.
C18_Witness == status = "failed" /\ compile = 2 /\ pc <= Len(prog)

\* The last statement is a break or a continue inside a function that is
\* declared inside a loop body.
LastIsJump == LastWalked /\ Last.op \in {"BreakStatement", "ContinueStatement"}
FunctionInLoop ==
    /\ FunctionFrames # {}
    /\ \E i \in LoopFrames : i < Max(FunctionFrames)
LoopInFunction == \E i \in LoopFrames : i > Max(FunctionFrames)

\* The names written so far.
Written == {gen.out[i] : i \in 1..Len(gen.out)}

C20_FunctionBodyResetsLoop ==
    /\ \A i \in FunctionFrames : ~ctxs[stack[i].ctx].inLoop
    /\ (LastIsJump /\ FunctionInLoop) => (status = "failed" <=> ~LoopInFunction)

\* A break directly in the body of a function declared inside a loop body.
C20_Witness ==
    /\ LastIsJump
    /\ Last.op = "BreakStatement"
    /\ FunctionInLoop
    /\ ~LoopInFunction
    /\ status = "failed"

-----------------------------------------------------------------------------
(* C21..C30.                                                               *)

\* The last statement sits directly in the body of a default case and would
\* make its rule throw: a break that no loop encloses, or a declaration whose
\* initializer names an identifier that nothing declares.
ViolatesInDefault ==
    /\ Stepped
    /\ Top.kind = "DefaultCase"
    /\ \/ Last.op = "BreakStatement" /\ LoopFrames = {}
       \/ /\ Last.op = "VariableDeclaration"
          /\ \E i \in 1..Len(Last.expressions) :
                /\ Last.expressions[i].node = "IdentifierExpression"
                /\ Last.expressions[i].id \notin {Last.ids[j] : j \in 1..Len(Last.ids)}
                /\ ~lookupVar(ctxs, Top.ctx, Last.expressions[i].id).found

\* C22: a rule violation in the body of the default case of a switch makes
\* the analysis fail.
C22_DefaultBodyAnalysed == ViolatesInDefault => status = "failed"

\* The step analyses the expression of a case: the first case of a switch
\* statement handed to its rule, or the next case at the end of a case body.
FirstCaseStep ==
    /\ pc' = pc + 1
    /\ Top.kind \notin Unwalked
    /\ prog'[pc].op = "SwitchStatement"
    /\ prog'[pc].cases # <<>>
NextCaseStep ==
    /\ pc' = pc + 1
    /\ Top.kind = "Case"
    /\ prog'[pc].op = "end"
    /\ Top.cases # <<>>

Enclosing == stack[Len(stack) - 1].ctx

\* C23: a case body is analysed in a scope of its own: a variable declared
\* in a case body is not a key of the variable map of the scope that holds
\* the switch statement, and the second case body of a switch may declare the
\* name that the first case body declared.
C23_CaseOwnScope ==
    /\ (/\ LastWalked
        /\ Top.kind = "Case"
        /\ Last.op = "VariableDeclaration"
        /\ status = "running"
        /\ compile = 1
        /\ Top.at = 1)
            => \A i \in 1..Len(Last.ids) :
                    Last.ids[i] \notin DOMAIN ctxs[Enclosing].variableDeclarations
    /\ (/\ LastWalked
        /\ Top.kind = "Case"
        /\ compile = 1
        /\ Top.at = 1
        /\ pc = 5
        /\ prog[2].op = "VariableDeclaration"
        /\ prog[3].op = "end"
        /\ Last = prog[2]
        /\ Last.expressions[1].node # "IdentifierExpression")
            => status # "failed"

\* The frame of the class body that directly holds the statement analysed
\* last: the top frame, or the one below the frame that a function
\* declaration has just pushed.
ClassFrame ==
    IF Last.op = "FunctionDeclaration" /\ status = "running"
    THEN Len(stack) - 1
    ELSE Len(stack)
InClassBody ==
    /\ LastWalked
    /\ Last.op \in {"VariableDeclaration", "FunctionDeclaration"}
    /\ ClassFrame > 1
    /\ stack[ClassFrame].kind = "ClassDeclaration"
MemberIds ==
    IF Last.op = "VariableDeclaration"
    THEN {Last.ids[i] : i \in 1..Len(Last.ids)}
    ELSE {Last.id}

\* The contexts that hold the constructor parameters of the class at index at.
ParameterContexts(at) ==
    {k \in 1..Len(ctxs) :
        \E n \in DOMAIN ctxs[k].variableDeclarations :
            /\ ctxs[k].variableDeclarations[n].kind = "Parameter"
            /\ ctxs[k].variableDeclarations[n].at = at}

\* C24: an accepted class declaration in scope S puts the class name in the
\* class table of S and has its body walked in S itself; an accepted variable
\* or function declaration of the body is a key of the variable table of S,
\* and declaring the name of such a member again after the class fails; the
\* constructor parameter is a key of a child context of S only, which the
\* body's lookups do not pass: an initializer of the body that names the
\* parameter, declared nowhere else, is rejected.
C24_ClassMembersInEnclosingScope ==
    /\ (LastWalked /\ Last.op = "ClassDeclaration" /\ status = "running")
            => /\ Top.kind = "ClassDeclaration"
               /\ Top.ctx = stack[Len(stack) - 1].ctx
               /\ Last.id \in DOMAIN ctxs[Top.ctx].classDeclarations
               /\ ParameterContexts(pc - 1) # {}
               /\ \A k \in ParameterContexts(pc - 1) :
                    /\ k # Top.ctx
                    /\ ctxs[k].parent = Top.ctx
    /\ (InClassBody /\ status = "running")
            => /\ MemberIds \subseteq
                    DOMAIN ctxs[stack[ClassFrame - 1].ctx].variableDeclarations
               /\ \A n \in Names :
                    lookupVar(ctxs, stack[ClassFrame].ctx, n).found
                        => ~ /\ lookupVar(ctxs, stack[ClassFrame].ctx, n).entity.kind
                                    = "Parameter"
                              /\ lookupVar(ctxs, stack[ClassFrame].ctx, n).entity.at
                                    = stack[ClassFrame].at
    /\ (/\ LastWalked
        /\ pc = 5
        /\ prog[1].op = "ClassDeclaration"
        /\ prog[2].op = "VariableDeclaration"
        /\ prog[3].op = "end"
        /\ prog[4].op = "VariableDeclaration"
        /\ prog[4].ids = prog[2].ids)
            => status = "failed" /\ thrown = AlreadyDeclared
    /\ (/\ LastWalked
        /\ pc = 3
        /\ prog[1].op = "ClassDeclaration"
        /\ Last.op = "VariableDeclaration"
        /\ Last.ids = <<"f">>
        /\ Last.expressions = <<IdentifierExpression("x")>>)
            => status = "failed" /\ thrown = NotDeclared

\* A member of a class is declared again after the class.
C24_Witness ==
    /\ status = "failed"
    /\ pc = 5
    /\ prog[1].op = "ClassDeclaration"
    /\ prog[2].op = "VariableDeclaration"
    /\ prog[2].expressions = <<NumericLiteral>>
    /\ prog[3].op = "end"
    /\ prog[4] = prog[2]

\* The statement analysed last is the first one of a block of an if statement
\* that is not its first block.
FirstOfLaterBlock ==
    /\ LastWalked
    /\ pc > 3
    /\ Top.kind = "IfStatement"
    /\ Top.ctx = Len(ctxs)
    /\ Last.op = "VariableDeclaration"
    /\ prog[pc - 2].op = "end"

\* C25: the block of an if statement that is being walked has a context of
\* its own, a child of the context of the if statement with the same loop
\* flag and current function; the first statement of a later block may declare
\* any name with a literal of its type, also one that an earlier block
\* declared, and is rejected when its initializer names a variable that only
\* an earlier block declared; no step taken in a block changes the context of
\* the if statement.
C25_BranchOwnScope ==
    [][/\ Top'.kind = "IfStatement"
            => /\ Top'.ctx # Top'.outer
               /\ Top'.outer = stack'[Len(stack') - 1].ctx
               /\ ctxs'[Top'.ctx].parent = Top'.outer
               /\ ctxs'[Top'.ctx].inLoop = ctxs'[Top'.outer].inLoop
               /\ ctxs'[Top'.ctx].currentFunction = ctxs'[Top'.outer].currentFunction
       /\ (FirstOfLaterBlock' /\ Last'.expressions[1].node # "IdentifierExpression")
            => status' = "running"
       /\ (/\ FirstOfLaterBlock'
           /\ Last'.expressions = <<IdentifierExpression("x")>>
           /\ Last'.ids = <<"f">>
           /\ ~lookupVar(ctxs', Top'.outer, "x").found)
            => status' = "failed"
       /\ Top.kind = "IfStatement" => ctxs'[Top.outer] = ctxs[Top.outer]]_vars

\* The second block of an if statement declares the name that the first
\* block declared.
C25_Witness ==
    /\ FirstOfLaterBlock
    /\ status = "running"
    /\ pc > 4
    /\ prog[pc - 3] = Last
    /\ prog[pc - 4].op = "IfStatement"

\* The step analyses a classic for loop statement.
ForStep ==
    /\ pc' = pc + 1
    /\ prog'[pc].op = "ClassicForLoop"

\* C26: the rule of a classic for loop changes no context that existed
\* before it (the variable table of the enclosing scope among them); a loop
\* with an Integer initializer whose test compares the index and whose update
\* names the index is accepted whatever the enclosing scopes declare under
\* the index name, and in its body the index name resolves to the index of
\* the loop: an assignment to it refers to the declaration made by the loop
\* statement; a lookup finds an index only from inside the body of its loop.
C26_IndexInLoopScopeOnly ==
    [][/\ ForStep =>
            /\ \A k \in 1..Len(ctxs) : ctxs'[k] = ctxs[k]
            /\ (prog'[pc].initexpression = NumericLiteral /\ prog'[pc].updateid = "x")
                    => /\ status' = "running"
                       /\ Top'.kind = "ClassicForLoop"
                       /\ Top'.ctx \notin 1..Len(ctxs)
                       /\ lookupVar(ctxs', Top'.ctx, "x").ctx = Top'.ctx
                       /\ lookupVar(ctxs', Top'.ctx, "x").entity.kind
                                = "VariableDeclaration"
                       /\ lookupVar(ctxs', Top'.ctx, "x").entity.at = pc
       /\ (/\ pc' = pc + 1
           /\ Top.kind = "ClassicForLoop"
           /\ prog'[pc].op = "AssignmentStatement")
                => \A i \in 1..Len(prog'[pc].target) :
                        prog'[pc].target[i] = "x"
                            => [node |-> <<pc, "target", i>>,
                                site |-> <<Top.at, "x">>] \in refs'
       /\ \A n \in Names :
            LET ref == lookupVar(ctxs', Top'.ctx, n)
            IN  (ref.found /\ ref.entity.kind = "VariableDeclaration")
                    => \E i \in 1..Len(stack') :
                            /\ stack'[i].kind = "ClassicForLoop"
                            /\ stack'[i].at = ref.entity.at]_vars

\* After a loop on the index x in a scope that declares a String x, x is
\* assigned to: the target is the String of the enclosing scope again.
C26_Witness ==
    /\ pc = 5
    /\ prog[1].op = "VariableDeclaration"
    /\ prog[1].ids = <<"x">>
    /\ prog[1].type = StringType
    /\ prog[2].op = "ClassicForLoop"
    /\ prog[3].op = "end"
    /\ prog[4].op = "AssignmentStatement"
    /\ [node |-> <<4, "target", 1>>, site |-> <<1, "x">>] \in refs
    /\ Len(stack) = 1

\* C27: the type of an accepted tuple literal with members holds the type of
\* every member, and no two of the member types it lists are structurally
\* equal.
C27_DistinctMemberTypes ==
    (/\ Stepped
     /\ Last.op = "TupleExpression"
     /\ Last.expressions # <<>>
     /\ status = "running")
        => LET m == exprType.memberTypes
           IN  /\ \A i \in 1..Len(Last.expressions) :
                    \E k \in 1..Len(m) :
                        m[k].type = analyze(ctxs, Top.ctx, Last.expressions[i]).type
               /\ \A k \in 1..Len(m) : \A l \in 1..Len(m) :
                    m[k].type = m[l].type => k = l

\* C28: a subscript expression whose base resolves to a declaration of an
\* array type and whose subscript is an Integer literal or an identifier of
\* an Integer is accepted.
C28_SubscriptAccepted ==
    (/\ LastWalked
     /\ Last.op = "SubscriptedExpression"
     /\ lookupVar(ctxs, Top.ctx, Last.varexp.id).found
     /\ lookupVar(ctxs, Top.ctx, Last.varexp.id).entity.type = ArrayType(IntType)
     /\ analyze(ctxs, Top.ctx, Last.subscript) = [err |-> FALSE, type |-> IntType])
        => status # "failed"

SelfReferences(s) ==
    {i \in 1..Len(s.expressions) :
        /\ s.expressions[i].node = "IdentifierExpression"
        /\ \E j \in 1..Len(s.ids) : s.ids[j] = s.expressions[i].id}

\* C30: after a variable declaration whose names were new in the scope,
\* accepted or rejected for its initializers, every name is a key of the
\* scope's variable table, bound to this declaration; an initializer that
\* names a variable of the declaration refers to this declaration and is not
\* reported as undeclared, and the declaration of an Integer x by x itself is
\* accepted whatever the enclosing scopes hold under x.
C30_DeclaredBeforeInitializers ==
    (/\ LastWalked
     /\ Last.op = "VariableDeclaration"
     /\ Len(Last.ids) = Len(Last.expressions)
     /\ thrown # AlreadyDeclared)
        => /\ \A j \in 1..Len(Last.ids) :
                /\ Last.ids[j] \in DOMAIN ctxs[Top.ctx].variableDeclarations
                /\ ctxs[Top.ctx].variableDeclarations[Last.ids[j]].kind = "Variable"
                /\ ctxs[Top.ctx].variableDeclarations[Last.ids[j]].at = pc - 1
           /\ SelfReferences(Last) # {} => thrown # NotDeclared
           /\ \A i \in SelfReferences(Last) :
                [node |-> <<pc - 1, "expressions", i>>,
                 site |-> <<pc - 1, Last.expressions[i].id>>] \in refs
           /\ (/\ Last.ids = <<"x">>
               /\ Last.type = IntType
               /\ Last.expressions = <<IdentifierExpression("x")>>)
                    => status # "failed"

\* In a block of a program that declares a String x, `digitz x: x` is
\* accepted and its initializer refers to the x of the block.
C30_Witness ==
    /\ LastWalked
    /\ pc = 4
    /\ prog[1].op = "VariableDeclaration"
    /\ prog[1].ids = <<"x">>
    /\ prog[1].type = StringType
    /\ prog[2].op \in {"WhileStatement", "IfStatement"}
    /\ Last.ids = <<"x">>
    /\ Last.expressions = <<IdentifierExpression("x")>>
    /\ status = "running"
    /\ [node |-> <<3, "expressions", 1>>, site |-> <<3, "x">>] \in refs

====
